---- MODULE Spec2Model ----
(***************************************************************************)
(* Model of tunnel-rs (src/src/main.rs): the World lookup tables built by  *)
(* World::new, the wall-clock phase stored by World::update, and           *)
(* World::draw, which splits the frame into bands rendered by scoped       *)
(* worker threads.                                                         *)
(*                                                                         *)
(* Numbers.  TLC integers are 32 bit, so the u32 and u64 of the source are *)
(* modelled as unsigned integers of U32Bits and U64Bits bits; every cast   *)
(* and every overflow is taken at that width.  The output resolution       *)
(* (WIDTH, HEIGHT) is scaled down so that a frame is a few pixels; the     *)
(* texture keeps its real size 256 x 256.                                  *)
(*                                                                         *)
(* Floating point.  The clock is an integer count of ticks of              *)
(* 1/TicksPerSec second.  PI is PiTicks ticks (3.14 s), f64::sin is        *)
(* Bhaskara's rational approximation (exact at 0, PI/2, PI, range [-1,1]), *)
(* f64::atan2 is a rational approximation exact on the axes and diagonals, *)
(* and ratio*th/sqrt(s) is computed by exact integer square root.          *)
(***************************************************************************)
EXTENDS Integers, Sequences, FiniteSets

\* ------------------------------------------------------------ bounds --
\* src/src/main.rs:14-15 are 1200 x 900; the model renders a small frame.
WIDTH == 4
HEIGHT == 3
\* Widths of the modelled u32 and u64 (32 and 64 in the source).
U32Bits == 16
U64Bits == 20
\* `let threads = 20` in draw; the model lets each draw pick 1..MaxThreads.
MaxThreads == 4

\* --------------------------------------------------------- constants --
tex_width == 256
tex_height == 256
ratio == 64
TicksPerSec == 200
PiTicks == 628

U32Max == 2^U32Bits - 1
U64Max == 2^U64Bits - 1

Min(a, b) == IF a < b THEN a ELSE b

\* ------------------------------------------------------------- casts --
\* `f as u32` / `f as u64` of a non-negative float: truncates, saturates at
\* the type's maximum; +inf saturates too.
F64AsU32(f) == IF f.inf \/ f.v > U32Max THEN U32Max ELSE IF f.v < 0 THEN 0 ELSE f.v
F64AsU64(v) == IF v > U64Max THEN U64Max ELSE IF v < 0 THEN 0 ELSE v

\* What a direct `f as u32` of the negative float would give instead: 0.
I32AsU32Saturating(k) == IF k < 0 THEN 0 ELSE k
\* `k as u32` of an i32: two's complement reinterpretation.
I32AsU32(k) == IF k < 0 THEN 2^U32Bits + k ELSE k

\* `v as usize` of an i32: sign extension, then reinterpretation.
I32AsUsize(v) == IF v < 0 THEN 2^U64Bits + v ELSE v

\* --------------------------------------------------- generate_texture --
RECURSIVE Xor(_, _)
Xor(a, b) ==
    IF a = 0 /\ b = 0 THEN 0
    ELSE ((a + b) % 2) + 2 * Xor(a \div 2, b \div 2)

generate_texture(width, height) ==
    [i \in 0..(width * height - 1) |->
        LET x == i % width
            y == i \div width
        IN Xor((x * 256) \div width, (y * 256) \div height)]

texture == generate_texture(tex_width, tex_height)

\* --------------------------------------------------------- World::new --
RECURSIVE IsqrtIn(_, _, _)
IsqrtIn(q, lo, hi) ==
    IF lo >= hi THEN lo
    ELSE LET mid == (lo + hi + 1) \div 2
         IN IF mid * mid <= q THEN IsqrtIn(q, mid, hi) ELSE IsqrtIn(q, lo, mid - 1)

\* floor(a / sqrt(s)) for s > 0: the largest d with d*d <= a*a / s.
FloorDivSqrt(a, s) == IsqrtIn((a * a) \div s, 0, a)

SqSum(x, y) == (x - WIDTH) * (x - WIDTH) + (y - HEIGHT) * (y - HEIGHT)

\* ratio * th / sq_sum.sqrt(): +inf when sq_sum is 0.
DistQuotient(x, y) ==
    IF SqSum(x, y) = 0
    THEN [inf |-> TRUE, v |-> 0]
    ELSE [inf |-> FALSE, v |-> FloorDivSqrt(ratio * tex_height, SqSum(x, y))]

\* The distance without its `% tex_height`.
NewDistanceUnreduced(x, y) == F64AsU32(DistQuotient(x, y))
\* (ratio * th / sq_sum.sqrt()) as u32 % tex_height as u32
NewDistance(x, y) == F64AsU32(DistQuotient(x, y)) % tex_height

\* atan(n/d) * half / PI for 0 <= n <= d, d > 0, as a numerator over
\* AtanDen(d): (n/d) * (half/4 + 0.087 * half * (1 - n/d)).
AtanNum(n, d, half) == n * half * (250 * d + 87 * (d - n))
AtanDen(d) == 1000 * d * d

\* trunc(0.5 * tw * atan2(dy, dx) / PI) as i32.
RawAngleOf(dy, dx) ==
    LET half == tex_width \div 2
        ay == IF dy < 0 THEN -dy ELSE dy
        ax == IF dx < 0 THEN -dx ELSE dx
        big == IF ay <= ax THEN ax ELSE ay
        small == IF ay <= ax THEN ay ELSE ax
        den == AtanDen(big)
        oct == AtanNum(small, big, half)
        \* first quadrant angle of (ax, ay)
        quad == IF ay <= ax THEN oct ELSE (half * den) \div 2 - oct
        \* angle of (dx, ay), in [0, half]
        mag == IF dx < 0 THEN half * den - quad ELSE quad
    IN IF ax = 0 /\ ay = 0 THEN 0
       ELSE IF dy < 0 THEN -(mag \div den) ELSE mag \div den

RawAngle(x, y) == RawAngleOf(y - HEIGHT, x - WIDTH)

NewAngle(x, y) == I32AsU32(RawAngle(x, y))

Rows == 0..(HEIGHT * 2 - 1)
Cols == 0..(WIDTH * 2 - 1)

\* The grids filled by the nested loop of World::new.
NewDistances == [y \in Rows |-> [x \in Cols |-> NewDistance(x, y)]]
NewAngles == [y \in Rows |-> [x \in Cols |-> NewAngle(x, y)]]

VARIABLES
    distances,        \* World.distances
    angles,           \* World.angles
    clock,            \* World.clock, in ticks
    overflow_checks,  \* build profile: TRUE = integer overflow panics
    pc,               \* position of the event loop: idle, scope, returned, aborted
    frame,            \* pixels.get_frame(): FrameLen bytes
    shift_x, shift_y, shift_look_x, shift_look_y, rows_per_band, bands,
    workers           \* spawned band workers, in spawn order

\* ---------------------------------------------------------------- now --
\* Readings of SystemTime::now(), in ticks since the Unix epoch.  The wall
\* clock is not monotonic: any reading may follow any other.  HugeClock is
\* a reading so late that shift_x saturates.
HugeClock == 2 * (U64Max + 1)
ClockValues == {0, 157, 314, 471, 942, HugeClock}
SystemTimes == ClockValues \cup {0 - TicksPerSec}

\* duration_since(UNIX_EPOCH) is Err for a reading before the epoch.
DurationSinceEpochOk(t) == t >= 0

\* -------------------------------------------------------- World::draw --
TruncDiv(a, b) == IF a >= 0 THEN a \div b ELSE 0 - ((0 - a) \div b)

\* f64::sin(t) as SinNum(t) / SinDen(t), t in ticks.
SinArg(t) == t % (2 * PiTicks)
SinHalf(t) == IF SinArg(t) <= PiTicks THEN SinArg(t) ELSE SinArg(t) - PiTicks
SinNum(t) ==
    LET n == 16 * SinHalf(t) * (PiTicks - SinHalf(t))
    IN IF SinArg(t) <= PiTicks THEN n ELSE 0 - n
SinDen(t) == 5 * PiTicks * PiTicks - 4 * SinHalf(t) * (PiTicks - SinHalf(t))

\* ((dim / 2) as f64 * sin(t)) as i32
LookDist(dim, t) == TruncDiv((dim \div 2) * SinNum(t), SinDen(t))

\* The offset taken from the far edge instead of the middle.
ShiftLookFromEdge(dim, look_dist) == I32AsUsize(dim + look_dist)
\* (dim as i32 / 2 + look_dist as i32) as usize
ShiftLook(dim, look_dist) == I32AsUsize(dim \div 2 + look_dist)

ShiftLookX(t) == ShiftLook(WIDTH, LookDist(WIDTH, t))
ShiftLookY(t) == ShiftLook(HEIGHT, LookDist(HEIGHT, 2 * t))

\* (tex_width as f64 * clock * 0.5) as u64, (tex_height as f64 * clock * 0.1) as u64
ShiftX(t) == F64AsU64((tex_width * t) \div (2 * TicksPerSec))
ShiftY(t) == F64AsU64((tex_height * t) \div (10 * TicksPerSec))

RowsPerBand(threads) == HEIGHT \div threads + 1
\* A band size counted in pixels instead of bytes.
BandSizeNoBpp(rpb) == rpb * WIDTH
\* rows_per_band * WIDTH as usize * 4
BandSize(rpb) == rpb * WIDTH * 4
FrameLen == WIDTH * HEIGHT * 4

\* frame.chunks_mut(size): consecutive slices of `size` bytes, the last one
\* shorter when size does not divide len.
ChunksMut(len, size) ==
    [i \in 1..((len + size - 1) \div size) |->
        [start |-> (i - 1) * size, len |-> Min(size, len - (i - 1) * size)]]

\* An offset counted in rows instead of pixels.
BandOffsetNoWidth(i, rpb) == i * rpb
\* offset handed to the worker of band i (0-based)
BandOffset(i, rpb) == i * rpb * WIDTH

\* The intensity in the red channel instead of the green one.
RgbaRedChannel(color) == <<color % 256, 0, 0, 255>>
\* [0u8, color as u8, 0u8, 0xff]
Rgba(color) == <<0, color % 256, 0, 255>>

\* One iteration of render_band's loop for pixel index j.  A slice index
\* out of range panics; an overflowing addition panics when the build has
\* overflow checks (oc) and wraps otherwise.
RenderPixel(j, sx, sy, slx, sly, oc) ==
    LET x == j % WIDTH
        y == j \div WIDTH
        row == y + sly
        col == x + slx
        rowW == row % (U64Max + 1)
        colW == col % (U64Max + 1)
        inb == rowW \in Rows /\ colW \in Cols
        sumx == distances[rowW][colW] + sx
        sumy == angles[rowW][colW] + sy
        ovf == row > U64Max \/ col > U64Max
                 \/ (inb /\ (sumx > U64Max \/ sumy > U64Max))
        tex_x == (sumx % (U64Max + 1)) % tex_width
        tex_y == (sumy % (U64Max + 1)) % tex_height
        tex_i == tex_y * tex_width + tex_x
    IN IF (oc /\ ovf) \/ ~inb \/ tex_i \notin DOMAIN texture
       THEN [panic |-> TRUE, rgba |-> <<>>]
       ELSE [panic |-> FALSE, rgba |-> Rgba(texture[tex_i])]

\* World.texture is filled once by generate_texture and never assigned again;
\* it is the constant `texture` above.  distances, angles and clock are the
\* other fields of World.
world == <<distances, angles, clock>>

vars == <<distances, angles, clock, overflow_checks, pc, frame, shift_x, shift_y, shift_look_x,
          shift_look_y, rows_per_band, bands, workers>>

locals == <<shift_x, shift_y, shift_look_x, shift_look_y, rows_per_band, bands, workers>>

Init ==
    /\ distances = NewDistances
    /\ angles = NewAngles
    /\ clock \in ClockValues
    /\ overflow_checks \in BOOLEAN
    /\ pc = "idle"
    /\ frame = [b \in 0..(FrameLen - 1) |-> 0]
    /\ shift_x = 0 /\ shift_y = 0 /\ shift_look_x = 0 /\ shift_look_y = 0
    /\ rows_per_band = 0
    /\ bands = <<>>
    /\ workers = <<>>

\* World::update: self.clock = now(); now() panics on a reading before the epoch.
Update ==
    /\ pc = "idle"
    /\ \E t \in SystemTimes :
          IF DurationSinceEpochOk(t)
          THEN clock' = t /\ pc' = "idle"
          ELSE clock' = clock /\ pc' = "aborted"
    /\ UNCHANGED <<distances, angles, overflow_checks, frame, locals>>

\* World::draw up to the call of crossbeam::scope.
DrawBegin ==
    /\ pc = "idle"
    /\ \E threads \in 1..MaxThreads :
          /\ rows_per_band' = RowsPerBand(threads)
          /\ bands' = ChunksMut(FrameLen, BandSize(RowsPerBand(threads)))
    /\ shift_x' = ShiftX(clock)
    /\ shift_y' = ShiftY(clock)
    /\ shift_look_x' = ShiftLookX(clock)
    /\ shift_look_y' = ShiftLookY(clock)
    /\ workers' = <<>>
    /\ pc' = "scope"
    /\ UNCHANGED <<world, overflow_checks, frame>>

\* One iteration of the spawning loop inside the scope closure.
Spawn ==
    /\ pc = "scope"
    /\ Len(workers) < Len(bands)
    /\ workers' = Append(workers,
          [band |-> bands[Len(workers) + 1],
           offset |-> BandOffset(Len(workers), rows_per_band),
           i |-> 0,
           status |-> "running"])
    /\ UNCHANGED <<world, overflow_checks, pc, frame, shift_x, shift_y,
                   shift_look_x, shift_look_y, rows_per_band, bands>>

\* band.chunks_exact_mut(4).enumerate() yields band.len / 4 pixels
BandPixels(w) == w.band.len \div 4

\* One loop iteration of render_band in worker n.
WorkerStep(n) ==
    /\ pc = "scope"
    /\ n \in 1..Len(workers)
    /\ workers[n].status = "running"
    /\ LET w == workers[n]
           r == RenderPixel(w.i + w.offset, shift_x, shift_y,
                            shift_look_x, shift_look_y, overflow_checks)
           at == w.band.start + 4 * w.i
       IN IF r.panic
          THEN /\ workers' = [workers EXCEPT ![n].status = "panicked"]
               /\ frame' = frame
          ELSE /\ frame' = [b \in DOMAIN frame |->
                              IF b \in at..(at + 3) THEN r.rgba[b - at + 1] ELSE frame[b]]
               /\ workers' = [workers EXCEPT
                     ![n].i = w.i + 1,
                     ![n].status = IF w.i + 1 = BandPixels(w) THEN "done" ELSE "running"]
    /\ UNCHANGED <<world, overflow_checks, pc, shift_x, shift_y,
                   shift_look_x, shift_look_y, rows_per_band, bands>>

\* A scope that returns with the closure, without joining.
ScopeJoinedNoWait == Len(workers) = Len(bands)
\* crossbeam::scope returns once the closure has returned and every spawned
\* thread has been joined.
ScopeJoined ==
    /\ Len(workers) = Len(bands)
    /\ \A n \in 1..Len(workers) : workers[n].status # "running"

\* scope(...).unwrap(): Err when a worker panicked.
ScopeExit ==
    /\ pc = "scope"
    /\ ScopeJoined
    /\ pc' = IF \E n \in 1..Len(workers) : workers[n].status = "panicked"
             THEN "aborted" ELSE "returned"
    /\ UNCHANGED <<world, overflow_checks, frame, locals>>

\* pixels.render() in the event loop, after draw has returned.
Present ==
    /\ pc = "returned"
    /\ pc' = "idle"
    /\ shift_x' = 0 /\ shift_y' = 0 /\ shift_look_x' = 0 /\ shift_look_y' = 0
    /\ rows_per_band' = 0
    /\ bands' = <<>>
    /\ workers' = <<>>
    /\ UNCHANGED <<world, overflow_checks, frame>>

Next ==
    \/ Update
    \/ DrawBegin
    \/ Spawn
    \/ \E n \in 1..MaxThreads : WorkerStep(n)
    \/ ScopeExit
    \/ Present

Spec == Init /\ [][Next]_vars

\* ------------------------------------------------------------ claims --
Pixels == 0..(WIDTH * HEIGHT - 1)
InDraw == pc \in {"scope", "returned"}

\* bytes of the frame worker n has written so far
WrittenBy(n) ==
    {b \in DOMAIN frame :
        /\ b >= workers[n].band.start
        /\ b < workers[n].band.start + 4 * workers[n].i}

\* C1: after World::new every cell of distances lies in [0, tex_height) and
\* every cell of angles lies in [0, tex_width), negative raw angles included.
C1_TablesInTextureRange ==
    \A y \in Rows : \A x \in Cols :
        /\ distances[y][x] \in 0..(tex_height - 1)
        /\ angles[y][x] \in 0..(tex_width - 1)

\* C2: in every draw, 0 <= shift_look_x <= WIDTH and 0 <= shift_look_y <=
\* HEIGHT, and for every output pixel (x, y) the cell
\* [y + shift_look_y][x + shift_look_x] exists in both tables.
C2_LookupsInBounds ==
    InDraw =>
        /\ shift_look_x \in 0..WIDTH
        /\ shift_look_y \in 0..HEIGHT
        /\ \A j \in Pixels :
              LET row == (j \div WIDTH) + shift_look_y
                  col == (j % WIDTH) + shift_look_x
              IN /\ row \in DOMAIN distances
                 /\ row \in DOMAIN angles
                 /\ col \in DOMAIN distances[row]
                 /\ col \in DOMAIN angles[row]

C2_Witness ==
    /\ pc = "returned"
    /\ shift_look_x = WIDTH
    /\ \A n \in 1..Len(workers) : workers[n].i = BandPixels(workers[n])

\* C3: the bands are contiguous and cover the frame, each starts and ends on
\* a whole-row boundary, the offset of each worker is the pixel index of the
\* first pixel of its band, and no byte is written by two workers.
C3_BandsDisjoint ==
    InDraw =>
        /\ Len(bands) >= 1
        /\ bands[1].start = 0
        /\ bands[Len(bands)].start + bands[Len(bands)].len = FrameLen
        /\ \A i \in 1..(Len(bands) - 1) :
              bands[i + 1].start = bands[i].start + bands[i].len
        /\ \A i \in 1..Len(bands) :
              /\ bands[i].len > 0
              /\ bands[i].start % (WIDTH * 4) = 0
              /\ bands[i].len % (WIDTH * 4) = 0
        /\ \A n \in 1..Len(workers) :
              /\ workers[n].band = bands[n]
              /\ 4 * workers[n].offset = workers[n].band.start
        /\ \A n, m \in 1..Len(workers) :
              n # m => WrittenBy(n) \cap WrittenBy(m) = {}

C3_Witness ==
    /\ pc = "scope"
    /\ Len(workers) >= 3
    /\ \A n \in 1..Len(workers) : workers[n].i >= 2 /\ workers[n].status = "running"

\* C4: draw has returned only when every band has a worker and every worker
\* has written its whole slice.
C4_ReturnAfterAllBands ==
    pc = "returned" =>
        /\ Len(workers) = Len(bands)
        /\ \A n \in 1..Len(workers) :
              /\ workers[n].status = "done"
              /\ workers[n].i = BandPixels(workers[n])
              /\ 4 * workers[n].i = workers[n].band.len

C4_Witness == pc = "returned" /\ Len(workers) = 2

\* C5: whatever the number of bands and the interleaving of the workers, the
\* frame draw returns equals the one a single pass of render_band over the
\* whole frame (offset 0) produces for the same World.
C5_SameFrameAnyBands ==
    pc = "returned" =>
        \A b \in DOMAIN frame :
            LET r == RenderPixel(b \div 4, ShiftX(clock), ShiftY(clock),
                                 ShiftLookX(clock), ShiftLookY(clock), overflow_checks)
            IN /\ ~r.panic
               /\ frame[b] = r.rgba[(b % 4) + 1]

C5_Witness == pc = "returned" /\ Len(workers) >= 3 /\ clock = 157

\* C6: after draw returns every pixel (x, y) has been written and holds
\* (0, g, 0, 255), g the low 8 bits of texture[ty * tex_width + tx] with
\* tx = (distances[y+lookY][x+lookX] + shiftX) mod tex_width and
\* ty = (angles[y+lookY][x+lookX] + shiftY) mod tex_height.
C6_PixelFormula ==
    pc = "returned" =>
        \A j \in Pixels :
            LET x == j % WIDTH
                y == j \div WIDTH
                tx == (distances[y + shift_look_y][x + shift_look_x] + shift_x) % tex_width
                ty == (angles[y + shift_look_y][x + shift_look_x] + shift_y) % tex_height
                g == texture[ty * tex_width + tx] % 256
            IN /\ \E n \in 1..Len(workers) : (4 * j) \in WrittenBy(n)
               /\ frame[4 * j] = 0
               /\ frame[4 * j + 1] = g
               /\ frame[4 * j + 2] = 0
               /\ frame[4 * j + 3] = 255

C6_Witness ==
    /\ pc = "returned"
    /\ clock = HugeClock
    /\ \E j \in Pixels : frame[4 * j + 1] # 0

\* C7: for every clock value, the sums dist + shift_x and angle + shift_y of
\* every pixel of a draw do not overflow 64 bits and the texture coordinates
\* are inside the texture.
C7_NoOverflowInRange ==
    InDraw =>
        \A j \in Pixels :
            LET row == (j \div WIDTH) + shift_look_y
                col == (j % WIDTH) + shift_look_x
                sumx == distances[row][col] + shift_x
                sumy == angles[row][col] + shift_y
            IN /\ sumx <= U64Max
               /\ sumy <= U64Max
               /\ (sumx % (U64Max + 1)) % tex_width \in 0..(tex_width - 1)
               /\ (sumy % (U64Max + 1)) % tex_height \in 0..(tex_height - 1)

\* C8: the cell at the projection center (x = WIDTH, y = HEIGHT, squared
\* distance 0) holds a distance in [0, tex_height) and a defined angle; a
\* returned frame whose window contains the cell has a written pixel for it
\* with green in [0, 255] taken from the texture; and a worker panics only
\* on an overflowing sum, never on the cell's values.
C8_CenterDefined ==
    /\ SqSum(WIDTH, HEIGHT) = 0
    /\ distances[HEIGHT][WIDTH] \in 0..(tex_height - 1)
    /\ angles[HEIGHT][WIDTH] \in 0..(tex_width - 1)
    /\ (pc = "returned" /\ shift_look_x \in 1..WIDTH /\ shift_look_y \in 1..HEIGHT) =>
          LET j == (HEIGHT - shift_look_y) * WIDTH + (WIDTH - shift_look_x)
              tx == (distances[HEIGHT][WIDTH] + shift_x) % tex_width
              ty == (angles[HEIGHT][WIDTH] + shift_y) % tex_height
          IN /\ \E n \in 1..Len(workers) : (4 * j + 1) \in WrittenBy(n)
             /\ frame[4 * j + 1] \in 0..255
             /\ frame[4 * j + 1] = texture[ty * tex_width + tx] % 256
    /\ \A n \in 1..Len(workers) :
          workers[n].status = "panicked" =>
              /\ overflow_checks
              /\ shift_x + tex_width > U64Max \/ shift_y + U32Max > U64Max

C8_Witness ==
    /\ pc = "returned"
    /\ shift_look_x \in 1..WIDTH
    /\ shift_look_y \in 1..HEIGHT
    /\ clock = 0

\* C9: World.clock never decreases from one stored value to the next.
C9_ClockMonotonic == [][clock' >= clock]_vars

\* C10: a cell whose raw angle k is negative has -tex_width/2 < k, stores
\* 2^32 + k, and whenever the sum with shift_y does not overflow the texture
\* row (stored + shift_y) mod tex_height equals (k + shift_y) mod tex_height;
\* the rendered pixel of such a cell shows that row.
C10_WrapCastSameRow ==
    /\ \A y \in Rows : \A x \in Cols :
          RawAngle(x, y) < 0 =>
              /\ RawAngle(x, y) > 0 - (tex_width \div 2)
              /\ angles[y][x] = 2^U32Bits + RawAngle(x, y)
              /\ (InDraw /\ angles[y][x] + shift_y <= U64Max) =>
                    (angles[y][x] + shift_y) % tex_height
                        = (RawAngle(x, y) + shift_y) % tex_height
    /\ pc = "returned" =>
          \A j \in Pixels :
              LET row == (j \div WIDTH) + shift_look_y
                  col == (j % WIDTH) + shift_look_x
                  k == RawAngle(col, row)
                  tx == (distances[row][col] + shift_x) % tex_width
                  ty == (k + shift_y) % tex_height
              IN k < 0 => frame[4 * j + 1] = texture[ty * tex_width + tx] % 256

C10_Witness ==
    /\ pc = "returned"
    /\ shift_y = 20
    /\ RawAngle(shift_look_x, shift_look_y) < 0

====
